---- MODULE Spec2Model ----
(***************************************************************************)
(* Model of backend/main.py: the in-memory sales table (app.state.data),   *)
(* its load-time coercion, the paging/filter/statistics handlers and the   *)
(* add-column mutation, plus the event loop that interleaves the requests. *)
(***************************************************************************)
EXTENDS Integers, Sequences, FiniteSets, TLC

VARIABLES
    csv,        \* the content of ../Data/shopify.csv as pd.read_csv sees it
    loaded,     \* whether startup_db_client has run
    data,       \* app.state.data: [columns: Seq(name), rows: Seq(row)]
    result,     \* the response of the handler that ran last, until delivered
    tasks,      \* event loop: each request's handler and position
    running     \* event loop: the task that holds the loop (0: none)

vars == <<csv, loaded, data, result, tasks, running>>

-----------------------------------------------------------------------------
(* Bounds of the model.                                                    *)

MaxRows == 3

-----------------------------------------------------------------------------
(* Cell values.  Every cell is a record tagged by k.                       *)

Str(s) == [k |-> "str", s |-> s]
Num(n) == [k |-> "num", n |-> n]
Ts(y, m, d) == [k |-> "ts", n |-> y * 10000 + m * 100 + d]
NaT == [k |-> "nat"]
NaN == [k |-> "nan"]
None == [k |-> "none"]
\* the text of a date: three integer fields joined by a separator
DateText(sep, a, b, c) == [k |-> "dtext", sep |-> sep, a |-> a, b |-> b, c |-> c]
\* the text of a number or of anything else in a numeric column, by character
Chars(cs) == [k |-> "chars", cs |-> cs]

Range(f) == {f[x] : x \in DOMAIN f}

IsLeap(y) == (y % 4 = 0 /\ y % 100 # 0) \/ y % 400 = 0

DaysIn(y, m) ==
    IF m \in {4, 6, 9, 11} THEN 30
    ELSE IF m = 2 THEN (IF IsLeap(y) THEN 29 ELSE 28)
    ELSE 31

ValidDate(y, m, d) ==
    /\ y \in 1000..9999
    /\ m \in 1..12
    /\ d \in 1..DaysIn(y, m)

\* pd.to_datetime(column, format='%d/%m/%Y', errors='coerce') on one cell
ParseLoadDate(cell) ==
    IF cell.k = "dtext" /\ cell.sep = "/" /\ ValidDate(cell.c, cell.b, cell.a)
    THEN Ts(cell.c, cell.b, cell.a)
    ELSE NaT

\* pd.to_datetime(text, errors='coerce') with no format: year-first text is
\* year, month, day; year-last text is read month first, and day first only
\* when the month-first reading is no date.
ParseFilterDate(cell) ==
    IF cell.k # "dtext" THEN NaT
    ELSE IF cell.a >= 1000
         THEN IF ValidDate(cell.a, cell.b, cell.c)
              THEN Ts(cell.a, cell.b, cell.c) ELSE NaT
    ELSE IF ValidDate(cell.c, cell.a, cell.b) THEN Ts(cell.c, cell.a, cell.b)
    ELSE IF ValidDate(cell.c, cell.b, cell.a) THEN Ts(cell.c, cell.b, cell.a)
    ELSE NaT

Digits == <<"0", "1", "2", "3", "4", "5", "6", "7", "8", "9">>

IsDigit(c) == \E i \in 1..10 : Digits[i] = c

DigitVal(c) == (CHOOSE i \in 1..10 : Digits[i] = c) - 1

RECURSIVE DigitsVal(_)
DigitsVal(cs) ==
    IF cs = <<>> THEN 0
    ELSE 10 * DigitsVal(SubSeq(cs, 1, Len(cs) - 1)) + DigitVal(cs[Len(cs)])

AllDigits(cs) == cs # <<>> /\ \A i \in 1..Len(cs) : IsDigit(cs[i])

\* pd.to_numeric(column, errors='coerce') on one cell (integer literals)
ToNumeric(cell) ==
    IF cell.k = "num" THEN cell
    ELSE IF cell.k # "chars" THEN NaN
    ELSE IF AllDigits(cell.cs) THEN Num(DigitsVal(cell.cs))
    ELSE IF Len(cell.cs) > 1 /\ cell.cs[1] = "-" /\ AllDigits(Tail(cell.cs))
         THEN Num(0 - DigitsVal(Tail(cell.cs)))
    ELSE NaN

\* Series.fillna(0)
FillZero(cell) == IF cell.k = "nan" THEN Num(0) ELSE cell

-----------------------------------------------------------------------------
(* The CSV input.                                                          *)

FullHeader ==
    <<"Date", "Total", "Quantity", "Status", "Deliver Status",
      "Shipping Country", "Shipping Province", "State", "Payment Method",
      "Risk Level", "SKU">>

\* a file without the Status and State columns
NoDimsHeader ==
    <<"Date", "Total", "Quantity", "Deliver Status", "Shipping Country",
      "Shipping Province", "Payment Method", "Risk Level", "SKU">>

Headers == {FullHeader, NoDimsHeader}

RawRow(date, total, qty, status, deliver, country, province, state, pay, risk, sku) ==
    ("Date" :> date) @@ ("Total" :> total) @@ ("Quantity" :> qty)
    @@ ("Status" :> status) @@ ("Deliver Status" :> deliver)
    @@ ("Shipping Country" :> country) @@ ("Shipping Province" :> province)
    @@ ("State" :> state) @@ ("Payment Method" :> pay)
    @@ ("Risk Level" :> risk) @@ ("SKU" :> sku)

\* "05/01/2023": 5 January under day/month/year, 1 May read month first
AmbiguousDate == DateText("/", 5, 1, 2023)
\* "13/02/2023": 13 February under either reading
FebruaryDate == DateText("/", 13, 2, 2023)
\* "2023-01-05": no day/month/year text, a date for the format-free parser
IsoDate == DateText("-", 2023, 1, 5)
JunkDate == Str("not-a-date")

RowPool ==
    { RawRow(AmbiguousDate, Chars(<<"1", "0">>), Chars(<<"1">>), Str("Paid"),
             Str("Shipped"), Str("US"), Str("NY"), Str("California"),
             Str("Card"), Str("Low"), Str("A")),
      RawRow(FebruaryDate, Chars(<<"2", "0">>), Chars(<<"2">>), Str("Pending"),
             Str("Shipped"), Str("US"), Str("TX"), Str("Texas"),
             Str("Cash"), Str("High"), Str("B")),
      RawRow(IsoDate, Chars(<<"a", "b", "c">>), NaN, NaN,
             NaN, Str("CA"), Str("ON"), Str("California"),
             Str("Card"), NaN, Str("A")),
      RawRow(JunkDate, Chars(<<"3", "0">>), Chars(<<"x">>), Str("Paid"),
             Str("Pending"), Str("US"), Str("NY"), NaN,
             NaN, Str("Low"), Str("B")) }

RowSeqs == UNION {[1..n -> RowPool] : n \in 0..MaxRows}

Restrict(row, header) == [c \in Range(header) |-> row[c]]

NoFile == [exists |-> FALSE, header |-> <<>>, rows |-> <<>>]

CsvFiles ==
    {NoFile} \cup
    {[exists |-> TRUE, header |-> h,
      rows |-> [i \in 1..Len(rs) |-> Restrict(rs[i], h)]] :
        h \in Headers, rs \in RowSeqs}

-----------------------------------------------------------------------------
(* The table.                                                              *)

EmptyFrame == [columns |-> <<>>, rows |-> <<>>]

HasColumn(df, c) == \E i \in 1..Len(df.columns) : df.columns[i] = c

\* df[name] = default: a new column goes last, an existing one is overwritten
SetColumn(df, name, default) ==
    [columns |-> IF HasColumn(df, name) THEN df.columns
                 ELSE Append(df.columns, name),
     rows |-> [i \in 1..Len(df.rows) |->
                 [c \in DOMAIN df.rows[i] \cup {name} |->
                     IF c = name THEN Str(default) ELSE df.rows[i][c]]]]

Idle == [op |-> "idle"]

Ok(op, args, value) == [op |-> op, args |-> args, status |-> "ok", value |-> value]

Failed(op, args, code) == [op |-> op, args |-> args, status |-> code, value |-> None]

\* lines 32-37 on one row; dateFill is what DataFrame.fillna('') leaves in a
\* Date cell that is NaT
CoerceRow(row, dateFill) ==
    [c \in DOMAIN row |->
        IF c = "Date"
        THEN (LET d == ParseLoadDate(row[c]) IN IF d.k = "nat" THEN dateFill ELSE d)
        ELSE IF c \in {"Total", "Quantity"} THEN FillZero(ToNumeric(row[c]))
        ELSE IF row[c].k = "nan" THEN Str("") ELSE row[c]]

\* read_csv raises, or a column the coercion indexes is missing (KeyError)
LoadRaises(file) ==
    \/ ~file.exists
    \/ \E c \in {"Date", "Total", "Quantity"} : c \notin Range(file.header)

\* DataFrame.fillna('') on the datetime64 Date column either leaves NaT
\* (the empty string is itself read as NaT) or turns the column into an
\* object column holding ''; which one depends on the pandas release.
DateFills == {NaT, Str("")}

LoadFrame(file, dateFill) ==
    IF LoadRaises(file) THEN EmptyFrame
    ELSE [columns |-> file.header,
          rows |-> [i \in 1..Len(file.rows) |-> CoerceRow(file.rows[i], dateFill)]]

startup_db_client ==
    /\ ~loaded
    /\ \E dateFill \in DateFills : data' = LoadFrame(csv, dateFill)
    /\ loaded' = TRUE
    /\ UNCHANGED <<csv, result, tasks, running>>

\* the response leaves the handler
Respond ==
    /\ result # Idle
    /\ result' = Idle
    /\ UNCHANGED <<csv, loaded, data, tasks, running>>

-----------------------------------------------------------------------------
(* Paging.                                                                 *)

\* Python's s[start:stop] (DataFrame.iloc with a slice)
PySlice(s, start, stop) ==
    LET n == Len(s)
        norm(i) == IF i < 0 THEN (IF i + n < 0 THEN 0 ELSE i + n)
                   ELSE (IF i > n THEN n ELSE i)
        a == norm(start)
        b == norm(stop)
    IN  IF a >= b THEN <<>> ELSE SubSeq(s, a + 1, b)

Skips == -2..2

Limits == -1..3

get_data ==
    /\ loaded /\ result = Idle
    /\ \E skip \in Skips, limit \in Limits :
          result' = Ok("get_data", [skip |-> skip, limit |-> limit],
                       PySlice(data.rows, skip, skip + limit))
    /\ UNCHANGED <<csv, loaded, data, tasks, running>>

-----------------------------------------------------------------------------
(* Filtering: lines 264-289 and 320-345.                                   *)

NoCriteria ==
    [status |-> None, delivery_status |-> None, country |-> None,
     province |-> None, state |-> None, payment_method |-> None,
     from_date |-> None, to_date |-> None,
     min_total |-> None, max_total |-> None]

\* Python's truth value of an Optional[str] parameter
Truthy(p) == p # None /\ p # Str("")

\* a frame in the middle of a handler: its rows, or the exception raised
Frame(rows) == [raised |-> FALSE, rows |-> rows]

Raised == [raised |-> TRUE, rows |-> <<>>]

\* if p and p != "All": filtered_data = filtered_data[filtered_data[col] == p]
FilterEquals(df, fd, p, col) ==
    IF fd.raised \/ ~(Truthy(p) /\ p # Str("All")) THEN fd
    ELSE IF ~HasColumn(df, col) THEN Raised
    ELSE LET Keep(row) == row[col] = p
         IN  Frame(SelectSeq(fd.rows, Keep))

\* Series >= scalar and Series <= scalar on the Total column
NumCompare(cell, bound, op) ==
    IF op = ">=" THEN cell.n >= bound.n ELSE cell.n <= bound.n

\* if bound is not None: filtered_data = filtered_data[filtered_data["Total"] op bound]
FilterTotal(df, fd, bound, op) ==
    IF fd.raised \/ bound = None THEN fd
    ELSE IF ~HasColumn(df, "Total") THEN Raised
    ELSE LET Keep(row) == NumCompare(row["Total"], bound, op)
         IN  Frame(SelectSeq(fd.rows, Keep))

\* one element of Series(Date) op Timestamp: a null on either side compares
\* false; '' against a Timestamp is a TypeError
DateCompare(cell, bound, op) ==
    IF cell.k = "nat" \/ bound.k = "nat" THEN FALSE
    ELSE IF op = ">=" THEN cell.n >= bound.n ELSE cell.n <= bound.n

DateCompareRaises(cell, bound) == cell.k = "str" /\ bound.k = "ts"

\* if text: bound = pd.to_datetime(text, errors='coerce');
\*          filtered_data = filtered_data[filtered_data["Date"] op bound]
FilterDate(df, fd, text, op) ==
    IF fd.raised \/ ~Truthy(text) THEN fd
    ELSE IF ~HasColumn(df, "Date") THEN Raised
    ELSE LET bound == ParseFilterDate(text)
             Keep(row) == DateCompare(row["Date"], bound, op)
         IN  IF \E i \in 1..Len(fd.rows) : DateCompareRaises(fd.rows[i]["Date"], bound)
             THEN Raised
             ELSE Frame(SelectSeq(fd.rows, Keep))

\* the filter chain the two filtered handlers share, in the code's order
ApplyFilters(df, crit) ==
    LET f0 == Frame(df.rows)
        f1 == FilterEquals(df, f0, crit.status, "Status")
        f2 == FilterEquals(df, f1, crit.delivery_status, "Deliver Status")
        f3 == FilterEquals(df, f2, crit.country, "Shipping Country")
        f4 == FilterEquals(df, f3, crit.province, "Shipping Province")
        f5 == FilterEquals(df, f4, crit.state, "State")
        f6 == FilterEquals(df, f5, crit.payment_method, "Payment Method")
        f7 == FilterTotal(df, f6, crit.min_total, ">=")
        f8 == FilterTotal(df, f7, crit.max_total, "<=")
        f9 == FilterDate(df, f8, crit.from_date, ">=")
    IN  FilterDate(df, f9, crit.to_date, "<=")

-----------------------------------------------------------------------------
(* Aggregation.                                                            *)

RECURSIVE SumCol(_, _)
\* Series.sum() of a numeric column
SumCol(rows, col) ==
    IF rows = <<>> THEN 0
    ELSE (IF rows[1][col].k = "num" THEN rows[1][col].n ELSE 0)
         + SumCol(Tail(rows), col)

\* a quotient kept exact
Ratio(num, den) == [num |-> num, den |-> den]

Zero == Ratio(0, 1)

RowsWith(rows, col, key) ==
    LET Keep(row) == row[col] = key IN SelectSeq(rows, Keep)

Keys(rows, col) == {rows[i][col] : i \in 1..Len(rows)}

\* Series.value_counts().to_dict()
ValueCounts(rows, col) ==
    [key \in Keys(rows, col) |-> Len(RowsWith(rows, col, key))]

\* groupby(by)[col].sum().to_dict()
GroupSum(rows, by, col) ==
    [key \in Keys(rows, by) |-> SumCol(RowsWith(rows, by, key), col)]

\* groupby(by)[col].mean().to_dict()
GroupMean(rows, by, col) ==
    [key \in Keys(rows, by) |->
        Ratio(SumCol(RowsWith(rows, by, key), col), Len(RowsWith(rows, by, key)))]

\* lines 292-298 and 348-352: the statistics both filtered handlers compute;
\* indexing a column the frame lacks is a KeyError
FilteredKpisRaise(df) == ~HasColumn(df, "Total") \/ ~HasColumn(df, "Quantity")

FilteredKpis(rows) ==
    [total_count |-> Len(rows),
     total_sales |-> SumCol(rows, "Total"),
     avg_order_value |-> IF Len(rows) > 0
                         THEN Ratio(SumCol(rows, "Total"), Len(rows)) ELSE Zero,
     total_quantity |-> SumCol(rows, "Quantity")]

\* the distinct values of a column in first-seen order (Series.unique())
RECURSIVE Unique(_, _, _)
Unique(rows, col, seen) ==
    IF rows = <<>> THEN <<>>
    ELSE IF rows[1][col] \in seen THEN Unique(Tail(rows), col, seen)
    ELSE <<rows[1][col]>> \o Unique(Tail(rows), col, seen \cup {rows[1][col]})

\* a stable sort of keys by descending count (value_counts' order)
RECURSIVE InsertByCount(_, _, _)
InsertByCount(sorted, key, counts) ==
    IF sorted = <<>> THEN <<key>>
    ELSE IF counts[sorted[1]] >= counts[key]
         THEN <<sorted[1]>> \o InsertByCount(Tail(sorted), key, counts)
    ELSE <<key>> \o sorted

RECURSIVE SortByCount(_, _)
SortByCount(keys, counts) ==
    IF keys = <<>> THEN <<>>
    ELSE InsertByCount(SortByCount(SubSeq(keys, 1, Len(keys) - 1), counts),
                       keys[Len(keys)], counts)

TopN == 10

\* Series.value_counts().head(10).to_dict()
TopCounts(rows, col) ==
    LET counts == ValueCounts(rows, col)
        order == SortByCount(Unique(rows, col, {}), counts)
        top == SubSeq(order, 1, IF Len(order) < TopN THEN Len(order) ELSE TopN)
    IN  [key \in Range(top) |-> counts[key]]

\* pd.to_datetime(data["Date"], errors='coerce') on one stored cell
RecoerceDate(cell) == IF cell.k = "ts" THEN cell ELSE NaT

\* dt.strftime('%Y-%m'): the label YYYY-MM as the number YYYYMM, whose order
\* is the order of the zero-padded text; a null date has no label
MonthOf(row) == RecoerceDate(row["Date"]).n \div 100

HasMonth(row) == RecoerceDate(row["Date"]).k = "ts"

RECURSIVE SortAsc(_)
\* sort_values('Month') over the group keys
SortAsc(S) ==
    IF S = {} THEN <<>>
    ELSE LET lo == CHOOSE x \in S : \A y \in S : x <= y
         IN  <<lo>> \o SortAsc(S \ {lo})

\* mean rounded to two decimals, in hundredths (ties to even, as numpy rounds)
Round2(num, den) ==
    LET q == (100 * num) \div den
        r == (100 * num) % den
    IN  IF 2 * r < den THEN q
        ELSE IF 2 * r > den THEN q + 1
        ELSE IF q % 2 = 0 THEN q ELSE q + 1

\* groupby('Month') drops the rows whose Month is null
MonthRows(rows, month) ==
    LET Keep(row) == HasMonth(row) /\ MonthOf(row) = month IN SelectSeq(rows, Keep)

\* the months in first-seen order, as without sort_values
MonthsFirstSeen(rows) ==
    LET dated == SelectSeq(rows, HasMonth)
        labelled == [i \in 1..Len(dated) |-> [m |-> MonthOf(dated[i])]]
        keys == Unique(labelled, "m", {})
    IN  [i \in 1..Len(keys) |-> keys[i]]

Months(rows) ==
    SortAsc({MonthOf(rows[i]) : i \in {j \in 1..Len(rows) : HasMonth(rows[j])}})

\* lines 178-179
MonthlySales(rows) ==
    LET ms == Months(rows)
    IN  [i \in 1..Len(ms) |->
            [Month |-> ms[i], Total |-> SumCol(MonthRows(rows, ms[i]), "Total")]]

\* lines 182-183
MonthlyOrders(rows) ==
    LET ms == Months(rows)
    IN  [i \in 1..Len(ms) |->
            [Month |-> ms[i], count |-> Len(MonthRows(rows, ms[i]))]]

\* lines 186-191
MonthlyAvg(rows) ==
    LET ms == Months(rows)
    IN  [i \in 1..Len(ms) |->
            [Month |-> ms[i],
             avg_value |-> Round2(SumCol(MonthRows(rows, ms[i]), "Total"),
                                  Len(MonthRows(rows, ms[i]))),
             order_count |-> Len(MonthRows(rows, ms[i]))]]

EmptyMap == [key \in {} |-> 0]

\* data[col].value_counts().to_dict() if col in data.columns else {}
CountsOrEmpty(df, col) ==
    IF HasColumn(df, col) THEN ValueCounts(df.rows, col) ELSE EmptyMap

\* get_stats indexes Total unguarded inside the Date and State branches
StatsRaises(df) ==
    \/ HasColumn(df, "Date") /\ ~HasColumn(df, "Total")
    \/ HasColumn(df, "State") /\ ~HasColumn(df, "Total")

StatsBundle(df) ==
    LET rows == df.rows
        total_sales == IF HasColumn(df, "Total") THEN SumCol(rows, "Total") ELSE 0
    IN  [total_records |-> Len(rows),
         total_sales |-> total_sales,
         total_quantity |-> IF HasColumn(df, "Quantity")
                            THEN SumCol(rows, "Quantity") ELSE 0,
         avg_order_value |-> IF Len(rows) > 0 THEN Ratio(total_sales, Len(rows))
                             ELSE Zero,
         state_counts |-> CountsOrEmpty(df, "State"),
         state_values |-> IF HasColumn(df, "State")
                          THEN GroupSum(rows, "State", "Total") ELSE EmptyMap,
         avg_quantity_by_state |->
             IF HasColumn(df, "State") /\ HasColumn(df, "Quantity")
             THEN GroupMean(rows, "State", "Quantity") ELSE EmptyMap,
         status_counts |-> CountsOrEmpty(df, "Status"),
         delivery_status_counts |-> CountsOrEmpty(df, "Deliver Status"),
         country_counts |-> CountsOrEmpty(df, "Shipping Country"),
         payment_method_counts |-> CountsOrEmpty(df, "Payment Method"),
         monthly_sales |-> IF HasColumn(df, "Date") THEN MonthlySales(rows) ELSE <<>>,
         monthly_orders |-> IF HasColumn(df, "Date") THEN MonthlyOrders(rows) ELSE <<>>,
         monthly_avg_values |-> IF HasColumn(df, "Date") THEN MonthlyAvg(rows) ELSE <<>>,
         top_skus |-> IF HasColumn(df, "SKU") THEN TopCounts(rows, "SKU") ELSE EmptyMap]

\* get_stats writing Month into app.state.data itself, without the copy
FrameAfterStatsInPlace(df) ==
    IF HasColumn(df, "Date") /\ HasColumn(df, "Total")
    THEN SetColumn(df, "Month", "") ELSE df

\* the shared frame after get_stats: the Month column goes into
\* monthly_data, a copy (line 174), so app.state.data is as before
FrameAfterStats(df) == df

get_stats ==
    /\ loaded /\ result = Idle
    /\ result' = IF StatsRaises(data) THEN Failed("get_stats", None, "500")
                 ELSE Ok("get_stats", None, StatsBundle(data))
    /\ data' = FrameAfterStats(data)
    /\ UNCHANGED <<csv, loaded, tasks, running>>

-----------------------------------------------------------------------------
(* The filtered handlers.                                                  *)

With(field, value) == [NoCriteria EXCEPT ![field] = value]

With2(f1, v1, f2, v2) == [NoCriteria EXCEPT ![f1] = v1, ![f2] = v2]

CriteriaPool ==
    { NoCriteria,
      With("status", Str("All")), With("status", Str("")),
      With("status", Str("Paid")), With("status", Str("paid")),
      With("delivery_status", Str("Shipped")),
      With("country", Str("US")),
      With("province", Str("NY")),
      With("state", Str("California")),
      With("payment_method", Str("Card")),
      With("min_total", Num(20)), With("max_total", Num(10)),
      With("from_date", AmbiguousDate), With("from_date", FebruaryDate),
      With("from_date", IsoDate), With("from_date", JunkDate),
      With("from_date", Str("")),
      With("to_date", AmbiguousDate), With("to_date", IsoDate),
      With("to_date", JunkDate),
      With2("status", Str("All"), "state", Str("All")),
      With2("status", Str("Paid"), "state", Str("California")),
      With2("min_total", Num(10), "max_total", Num(20)),
      With2("from_date", AmbiguousDate, "to_date", AmbiguousDate),
      With2("from_date", IsoDate, "to_date", IsoDate),
      With2("from_date", FebruaryDate, "to_date", JunkDate),
      With2("status", Str("Paid"), "to_date", FebruaryDate) }

FilterPages == {<<0, 3>>, <<1, 1>>, <<0, 1>>}

FilterData(df, crit, skip, limit) ==
    LET fd == ApplyFilters(df, crit)
        args == [crit |-> crit, skip |-> skip, limit |-> limit]
    IN  IF fd.raised \/ FilteredKpisRaise(df)
        THEN Failed("filter_data", args, "500")
        ELSE Ok("filter_data", args, PySlice(fd.rows, skip, skip + limit))

filter_data ==
    /\ loaded /\ result = Idle
    /\ \E crit \in CriteriaPool, page \in FilterPages :
          result' = FilterData(data, crit, page[1], page[2])
    /\ UNCHANGED <<csv, loaded, data, tasks, running>>

\* lines 353-354 index State and Status unguarded
FilteredStatsRaise(df) ==
    FilteredKpisRaise(df) \/ ~HasColumn(df, "State") \/ ~HasColumn(df, "Status")

FilteredStats(df, crit) ==
    LET fd == ApplyFilters(df, crit)
        args == [crit |-> crit]
    IN  IF fd.raised \/ FilteredStatsRaise(df)
        THEN Failed("get_filtered_stats", args, "500")
        ELSE Ok("get_filtered_stats", args,
                [total_count |-> FilteredKpis(fd.rows).total_count,
                 total_sales |-> FilteredKpis(fd.rows).total_sales,
                 avg_order_value |-> FilteredKpis(fd.rows).avg_order_value,
                 total_quantity |-> FilteredKpis(fd.rows).total_quantity,
                 state_breakdown |-> GroupSum(fd.rows, "State", "Total"),
                 status_breakdown |-> ValueCounts(fd.rows, "Status")])

get_filtered_stats ==
    /\ loaded /\ result = Idle
    /\ \E crit \in CriteriaPool : result' = FilteredStats(data, crit)
    /\ UNCHANGED <<csv, loaded, data, tasks, running>>

-----------------------------------------------------------------------------
(* Schema.                                                                 *)

get_columns ==
    /\ loaded /\ result = Idle
    /\ result' = Ok("get_columns", None, data.columns)
    /\ UNCHANGED <<csv, loaded, data, tasks, running>>

categorical_columns ==
    <<"Status", "Deliver Status", "Shipping Country", "Shipping Province",
      "Payment Method", "Risk Level", "State">>

\* ["All"] + list(data[col][data[col] != ''].dropna().unique())
OptionsOf(df, col) ==
    LET Keep(row) == row[col] # Str("")
    IN  <<Str("All")>> \o Unique(SelectSeq(df.rows, Keep), col, {})

FilterOptions(df) ==
    [col \in {c \in Range(categorical_columns) : HasColumn(df, c)} |->
        OptionsOf(df, col)]

get_filter_options ==
    /\ loaded /\ result = Idle
    /\ result' = Ok("get_filter_options", None, FilterOptions(data))
    /\ UNCHANGED <<csv, loaded, data, tasks, running>>

AddNames == {"Notes", "Date"}

Defaults == {"", "y"}

\* add_column without the duplicate check of line 393
AddColumnOverwrite(df, name, default) ==
    [status |-> "ok", frame |-> SetColumn(df, name, default)]

\* lines 393-400: the frame the handler leaves and the status it answers
AddColumn(df, name, default) ==
    IF HasColumn(df, name)
    THEN [status |-> "400", frame |-> df]
    ELSE [status |-> "ok", frame |-> SetColumn(df, name, default)]

add_column ==
    /\ loaded /\ result = Idle
    /\ \E name \in AddNames, default \in Defaults :
          LET out == AddColumn(data, name, default)
              args == [column_name |-> name, default_value |-> default]
          IN  /\ data' = out.frame
              /\ result' = IF out.status = "ok" THEN Ok("add_column", args, None)
                           ELSE Failed("add_column", args, out.status)
    /\ UNCHANGED <<csv, loaded, tasks, running>>

-----------------------------------------------------------------------------
(* The event loop.  Every handler is a coroutine; one task runs at a time  *)
(* and the loop changes task only where the running one awaits.  FastAPI   *)
(* awaits the handler's dependencies (the request, the bearer token)       *)
(* before the body; the bodies themselves hold no await.                   *)

MaxTasks == 3

TaskIds == 1..MaxTasks

\* add_column awaiting between its check and its write
AwaitsAfterCheck(handler, pc) == pc \in {"deps", "check"}

\* whether the statement at pc ends in an await (lines 386-400, 156-244)
Awaits(handler, pc) == pc = "deps"

NewTask(handler, name, default) ==
    [handler |-> handler, pc |-> "deps", column_name |-> name,
     default_value |-> default, columns |-> <<>>]

NewTasks ==
    {NewTask("add_column", n, d) : n \in AddNames, d \in Defaults}
    \cup {NewTask("get_stats", "", "")}

\* the loop picks a task that is ready when no task is running
Resume(t) ==
    /\ running = 0
    /\ tasks[t].pc # "done"
    /\ running' = t
    /\ UNCHANGED <<csv, loaded, data, result, tasks>>

\* one statement of task t, which keeps the loop unless the statement awaits
Advance(t, pc, task) ==
    /\ tasks' = [tasks EXCEPT ![t] = [task EXCEPT !.pc = pc]]
    /\ running' = IF Awaits(task.handler, task.pc) \/ pc = "done" THEN 0 ELSE t

\* Depends(get_current_active_user) and the request's parameters
ResolveDeps(t) ==
    /\ running = t
    /\ tasks[t].pc = "deps"
    /\ Advance(t, IF tasks[t].handler = "add_column" THEN "check" ELSE "first",
               tasks[t])
    /\ UNCHANGED <<csv, loaded, data, result>>

\* line 393: if column_name in app.state.data.columns: raise
AddCheck(t) ==
    /\ running = t
    /\ tasks[t].pc = "check"
    /\ Advance(t, IF HasColumn(data, tasks[t].column_name) THEN "done" ELSE "write",
               tasks[t])
    /\ UNCHANGED <<csv, loaded, data, result>>

\* line 397: app.state.data[column_name] = default_value
AddWrite(t) ==
    /\ running = t
    /\ tasks[t].pc = "write"
    /\ data' = SetColumn(data, tasks[t].column_name, tasks[t].default_value)
    /\ Advance(t, "done", tasks[t])
    /\ UNCHANGED <<csv, loaded, result>>

\* line 160: data = app.state.data, and the first read of data.columns
ReadFirst(t) ==
    /\ running = t
    /\ tasks[t].pc = "first"
    /\ Advance(t, "last", [tasks[t] EXCEPT !.columns = data.columns])
    /\ UNCHANGED <<csv, loaded, data, result>>

\* line 211: the last read of data.columns, then the return
ReadLast(t) ==
    /\ running = t
    /\ tasks[t].pc = "last"
    /\ Advance(t, "done", tasks[t])
    /\ UNCHANGED <<csv, loaded, data, result>>

LoopFiles ==
    {NoFile} \cup
    {[exists |-> TRUE, header |-> FullHeader, rows |-> <<r>>] :
        r \in {x \in RowPool : x["Status"] = Str("Pending")}}

InitLoop ==
    /\ csv \in LoopFiles
    /\ loaded = TRUE
    /\ data = LoadFrame(csv, NaT)
    /\ result = Idle
    /\ tasks \in [TaskIds -> NewTasks]
    /\ running = 0

NextLoop ==
    \E t \in TaskIds :
        \/ Resume(t)
        \/ ResolveDeps(t)
        \/ AddCheck(t)
        \/ AddWrite(t)
        \/ ReadFirst(t)
        \/ ReadLast(t)

SpecLoop == InitLoop /\ [][NextLoop]_vars

-----------------------------------------------------------------------------

Init ==
    /\ csv \in CsvFiles
    /\ loaded = FALSE
    /\ data = EmptyFrame
    /\ result = Idle
    /\ tasks = <<>>
    /\ running = 0

Next ==
    \/ startup_db_client
    \/ Respond
    \/ get_data
    \/ get_stats
    \/ filter_data
    \/ get_filtered_stats
    \/ get_columns
    \/ get_filter_options
    \/ add_column

Spec == Init /\ [][Next]_vars

-----------------------------------------------------------------------------
(* Properties.                                                             *)

FilteredOps == {"filter_data", "get_filtered_stats"}

LoadedFull == loaded /\ csv.exists /\ csv.header = FullHeader

\* a criterion that is present and not the "All" sentinel
Present(p) == p # None /\ p # Str("All")

\* the row satisfies the criteria as the specification reads them, a date
\* bound being day/month/year text
Satisfies(df, row, crit) ==
    LET Eq(p, col) == Present(p) => (HasColumn(df, col) /\ row[col] = p)
        from == ParseLoadDate(crit.from_date)
        to == ParseLoadDate(crit.to_date)
        date == IF HasColumn(df, "Date") THEN row["Date"] ELSE NaT
        total == IF HasColumn(df, "Total") THEN row["Total"] ELSE NaN
    IN  /\ Eq(crit.status, "Status")
        /\ Eq(crit.delivery_status, "Deliver Status")
        /\ Eq(crit.country, "Shipping Country")
        /\ Eq(crit.province, "Shipping Province")
        /\ Eq(crit.state, "State")
        /\ Eq(crit.payment_method, "Payment Method")
        /\ crit.min_total # None => (total.k = "num" /\ total.n >= crit.min_total.n)
        /\ crit.max_total # None => (total.k = "num" /\ total.n <= crit.max_total.n)
        /\ crit.from_date # None =>
              (date.k = "ts" /\ from.k = "ts" /\ date.n >= from.n)
        /\ crit.to_date # None =>
              (date.k = "ts" /\ to.k = "ts" /\ date.n <= to.n)

SatisfyingRows(df, crit) ==
    LET Keep(row) == Satisfies(df, row, crit) IN SelectSeq(df.rows, Keep)

\* C1: the filtered handlers answer, and their view holds exactly the rows
\* that satisfy every criterion present and not "All", in load order; with
\* no criterion the filtered page is the unfiltered page.
C1_ViewIsExactlyTheSatisfyingRows ==
    /\ result.op = "get_filtered_stats" =>
          /\ result.status = "ok"
          /\ result.value.total_count
                = Len(SatisfyingRows(data, result.args.crit))
    /\ result.op = "filter_data" =>
          /\ result.status = "ok"
          /\ result.value
                = PySlice(SatisfyingRows(data, result.args.crit),
                          result.args.skip, result.args.skip + result.args.limit)
          /\ result.args.crit = NoCriteria =>
                result.value = PySlice(data.rows, result.args.skip,
                                       result.args.skip + result.args.limit)

\* C2: add_column with a name the frame has answers 400 and leaves the frame
\* as it is; with a new name it appends that one column, every row holding
\* the default and every other cell unchanged.
C2_AddColumnRejectsOrAppends ==
    [][result'.op = "add_column" =>
        LET name == result'.args.column_name
            default == result'.args.default_value
        IN  IF HasColumn(data, name)
            THEN result'.status = "400" /\ data' = data
            ELSE /\ result'.status = "ok"
                 /\ data'.columns = Append(data.columns, name)
                 /\ Len(data'.rows) = Len(data.rows)
                 /\ \A i \in 1..Len(data.rows) :
                       /\ DOMAIN data'.rows[i] = DOMAIN data.rows[i] \cup {name}
                       /\ data'.rows[i][name] = Str(default)
                       /\ \A c \in DOMAIN data.rows[i] :
                             data'.rows[i][c] = data.rows[i][c]]_vars

\* C2 witness: a second add of "Notes", with "y", was rejected and every row
\* still holds the first add's "".
C2_Witness ==
    /\ result.op = "add_column" /\ result.status = "400"
    /\ result.args.column_name = "Notes" /\ result.args.default_value = "y"
    /\ Len(data.rows) > 0
    /\ \A i \in 1..Len(data.rows) : data.rows[i]["Notes"] = Str("")

ClampedPage(rows, skip, limit) ==
    LET from == IF skip < 0 THEN 0 ELSE skip
        to == IF from + limit > Len(rows) THEN Len(rows) ELSE from + limit
    IN  IF limit <= 0 \/ from >= Len(rows) THEN <<>> ELSE SubSeq(rows, from + 1, to)

\* C3: the page is the rows at [max(skip,0), max(skip,0)+limit): a negative
\* skip is clamped to 0 and limit <= 0 gives the empty page.
C3_PageIsClamped ==
    result.op = "get_data" =>
        /\ result.status = "ok"
        /\ result.value = ClampedPage(data.rows, result.args.skip, result.args.limit)

\* C4: after load the row count is the raw row count, a Total or Quantity
\* cell that failed numeric coercion is 0, a Date cell that failed to parse
\* is the null timestamp, and every other missing cell is "".
C4_LoadCoercion ==
    loaded =>
        /\ Len(data.rows) = Len(csv.rows)
        /\ \A i \in 1..Len(data.rows) : \A c \in DOMAIN csv.rows[i] :
              LET raw == csv.rows[i][c]
                  cell == data.rows[i][c]
              IN  IF c = "Date"
                  THEN ParseLoadDate(raw).k = "nat" => cell = NaT
                  ELSE IF c \in {"Total", "Quantity"}
                  THEN ToNumeric(raw).k = "nan" => cell = Num(0)
                  ELSE raw.k = "nan" => cell = Str("")

\* a date bound whose text is not empty and does not parse as a date
Unparsable(text) == Truthy(text) /\ ParseFilterDate(text).k = "nat"

\* C5: on a loaded table, null Dates or not, a from_date or to_date that
\* does not parse gives total_count 0 and the empty page: the handler
\* answers (stated for bounds whose text is not empty).
C5_UnparsableBoundGivesEmptyView ==
    (/\ LoadedFull
     /\ result.op \in FilteredOps
     /\ Unparsable(result.args.crit.from_date) \/ Unparsable(result.args.crit.to_date))
    => /\ result.status = "ok"
       /\ result.op = "get_filtered_stats" => result.value.total_count = 0
       /\ result.op = "filter_data" => result.value = <<>>

Absent(col) == ~HasColumn(data, col)

\* C6: a breakdown on a column the frame lacks is the empty mapping and the
\* handler still answers its bundle.
C6_AbsentColumnGivesEmptyMapping ==
    /\ result.op = "get_stats" =>
          /\ result.status = "ok"
          /\ Absent("Status") => result.value.status_counts = EmptyMap
          /\ Absent("Deliver Status") => result.value.delivery_status_counts = EmptyMap
          /\ Absent("Shipping Country") => result.value.country_counts = EmptyMap
          /\ Absent("Payment Method") => result.value.payment_method_counts = EmptyMap
          /\ Absent("State") =>
                /\ result.value.state_counts = EmptyMap
                /\ result.value.state_values = EmptyMap
                /\ result.value.avg_quantity_by_state = EmptyMap
          /\ Absent("Total") => result.value.state_values = EmptyMap
          /\ Absent("Quantity") => result.value.avg_quantity_by_state = EmptyMap
          /\ Absent("SKU") => result.value.top_skus = EmptyMap
    /\ result.op = "get_filtered_stats" =>
          /\ result.status = "ok"
          /\ Absent("State") => result.value.state_breakdown = EmptyMap
          /\ Absent("Status") => result.value.status_breakdown = EmptyMap

\* the rows whose raw Date text is the day that s is under day/month/year
SameDayRows(s) ==
    {i \in 1..Len(csv.rows) :
        /\ ParseLoadDate(s).k = "ts"
        /\ ParseLoadDate(csv.rows[i]["Date"]) = ParseLoadDate(s)}

\* C7: a filter bound's text is read as the load reads a Date cell's text,
\* so from_date = to_date = s selects the rows whose raw Date is that day.
C7_FilterParsesDatesAsLoadDoes ==
    (LoadedFull /\ result.op \in FilteredOps) =>
        LET from == result.args.crit.from_date
            to == result.args.crit.to_date
        IN  /\ Truthy(from) => ParseFilterDate(from) = ParseLoadDate(from)
            /\ Truthy(to) => ParseFilterDate(to) = ParseLoadDate(to)
            /\ (/\ result.op = "get_filtered_stats"
                /\ result.args.crit = With2("from_date", from, "to_date", from)
                /\ Truthy(from))
               => /\ result.status = "ok"
                  /\ result.value.total_count = Cardinality(SameDayRows(from))

RECURSIVE SumOf(_, _)
SumOf(entries, field) ==
    IF entries = <<>> THEN 0 ELSE entries[1][field] + SumOf(Tail(entries), field)

Ascending(entries) ==
    \A i \in 1..Len(entries) - 1 : entries[i].Month < entries[i + 1].Month

DatedRows == {i \in 1..Len(data.rows) : data.rows[i]["Date"].k = "ts"}

Labels == {data.rows[i]["Date"].n \div 100 : i \in DatedRows}

LabelsOf(entries) == {entries[i].Month : i \in 1..Len(entries)}

\* C8: each monthly series of get_stats is ascending by month with one entry
\* per distinct month; rows with a null Date are in no month, so the monthly
\* counts add up to the rows with a Date, while total_records counts all rows.
C8_MonthlySeries ==
    (result.op = "get_stats" /\ result.status = "ok" /\ HasColumn(data, "Date")) =>
        LET v == result.value
        IN  /\ Ascending(v.monthly_sales) /\ LabelsOf(v.monthly_sales) = Labels
            /\ Ascending(v.monthly_orders) /\ LabelsOf(v.monthly_orders) = Labels
            /\ Ascending(v.monthly_avg_values)
            /\ LabelsOf(v.monthly_avg_values) = Labels
            /\ SumOf(v.monthly_orders, "count") = Cardinality(DatedRows)
            /\ SumOf(v.monthly_avg_values, "order_count") = Cardinality(DatedRows)
            /\ v.total_records = Len(data.rows)

\* C8 witness: two months stored out of order beside a row with a null Date.
C8_Witness ==
    /\ result.op = "get_stats" /\ result.status = "ok"
    /\ Len(data.rows) = 3
    /\ Len(result.value.monthly_orders) = 2
    /\ data.rows[1]["Date"].k = "ts" /\ data.rows[2]["Date"].k # "ts"
    /\ data.rows[3]["Date"].k = "ts"
    /\ data.rows[1]["Date"].n > data.rows[3]["Date"].n
    /\ result.value.total_records = 3

\* C9: after load no handler removes, reorders or changes a row: the rows
\* keep their count, order and every cell of the columns they had, and the
\* columns change only by a successful add_column appending its column.
C9_RowsAreNeverMutated ==
    [][loaded =>
        /\ Len(data'.rows) = Len(data.rows)
        /\ \A i \in 1..Len(data.rows) : \A c \in DOMAIN data.rows[i] :
              c \in DOMAIN data'.rows[i] /\ data'.rows[i][c] = data.rows[i][c]
        /\ \/ data'.columns = data.columns
           \/ /\ result'.op = "add_column" /\ result'.status = "ok"
              /\ data'.columns = Append(data.columns, result'.args.column_name)
        /\ \A i \in 1..Len(data'.rows) :
              DOMAIN data'.rows[i] = Range(data'.columns)]_vars

\* C9 witness: get_stats computed two monthly entries over a table that
\* holds no Month column afterwards.
C9_Witness ==
    /\ result.op = "get_stats" /\ result.status = "ok"
    /\ Len(result.value.monthly_sales) = 2
    /\ ~HasColumn(data, "Month")
    /\ \A i \in 1..Len(data.rows) : "Month" \notin DOMAIN data.rows[i]

\* the task has run the first statement of its body and not yet the last
InBody(t) == tasks[t].pc \in {"write", "last"}

\* C10: handler bodies run to completion: no two requests are inside their
\* bodies at once, a read sees the columns it saw at its first step, and an
\* add_column about to write still lacks its column.
C10_BodiesRunToCompletion ==
    /\ \A t, u \in DOMAIN tasks : (InBody(t) /\ InBody(u)) => t = u
    /\ \A t \in DOMAIN tasks :
          /\ InBody(t) => running = t
          /\ tasks[t].pc = "last" => tasks[t].columns = data.columns
          /\ tasks[t].pc = "write" => ~HasColumn(data, tasks[t].column_name)

\* C10 witness: one add_column is about to write while another request for
\* the same column and a read are suspended at the transport boundary.
C10_Witness ==
    \E t, u, r \in DOMAIN tasks :
        /\ t # u
        /\ tasks[t].pc = "write"
        /\ tasks[u].handler = "add_column" /\ tasks[u].pc = "check"
        /\ tasks[u].column_name = tasks[t].column_name
        /\ tasks[r].handler = "get_stats" /\ tasks[r].pc = "first"

====
